---- MODULE Spec2Model ----
(***************************************************************************)
(* Model of the risk-based severity engine (src/severity_engine.py).       *)
(*                                                                         *)
(* Representation                                                          *)
(*  - A Python str is a sequence of one-character strings, so that         *)
(*    strip(), lower(), upper() and the substring test are computed        *)
(*    character by character.  Python None is the value None below, which  *)
(*    is no character sequence.                                            *)
(*  - A Python dict is a function; a key that is absent is outside its     *)
(*    DOMAIN.  Empty is the empty dict.                                    *)
(*  - Floats are fixed point: a CVSS score, an impact, a volume and an     *)
(*    asset factor are held in tenths (9.5 is 95, 1.4 is 14); the risk     *)
(*    score, a product of two of them, in hundredths (87.0 is 8700).       *)
(***************************************************************************)
EXTENDS Integers, Sequences, FiniteSets, TLC

VARIABLES
    mapping_raw,              \* self.mapping_raw: the mapping JSON as loaded
    acu,                      \* self.acu: Profile A ("acunetix")
    cvss,                     \* self.cvss: Profile B ("cvss")
    escalation,               \* self.escalation
    critical_asset_keywords,  \* self.critical_asset_keywords
    asset_criticality,        \* self.asset_criticality
    mitre_risk,               \* self.mitre_risk
    call,                     \* the arguments classify is called with
    base_sev,                 \* classify's local base_sev (None before the call)
    risk_score,               \* classify's local risk_score (None before the call)
    risk_parts,               \* the locals of _compute_risk_score in that call
    ret,                      \* what the call returned (None before it returns)
    pc,                       \* "call" before classify runs, "done" after
    ncalls,                   \* how many calls of classify this caller completed
    other,                    \* a second caller of classify, on another thread
    sev_a,                    \* the first argument max_severity is called with
    sev_b,                    \* the second argument
    sev_max,                  \* what the two max functions returned (None before)
    mapping_file,             \* the mapping file on disk (NoFile where the model
                              \* starts from its parsed content)
    risk_file,                \* the risk metadata file on disk (NoFile likewise)
    cli_mapping,              \* the profile load_mapping_file was called for and
                              \* what it returned (NotLoaded before)
    lru,                      \* the entries functools.lru_cache holds for an
                              \* enrichment lookup, least recently used first
    fetches,                  \* per id, how often the external service was asked
    logs,                     \* analyze_uris: which script's function is called,
                              \* the entries passed and the summary returned
    api                       \* build_api_data: the entries passed and the
                              \* payload returned

vars == <<mapping_raw, acu, cvss, escalation, critical_asset_keywords,
          asset_criticality, mitre_risk, call, base_sev, risk_score, risk_parts,
          ret, pc, ncalls, other, sev_a, sev_b, sev_max, mapping_file, risk_file,
          cli_mapping, lru, fetches, logs, api>>

engine == <<mapping_raw, acu, cvss, escalation, critical_asset_keywords,
            asset_criticality, mitre_risk>>

\* what the command-line parser's helpers work on
tools == <<sev_a, sev_b, sev_max, mapping_file, risk_file, cli_mapping,
           lru, fetches, logs, api>>

(***************************************************************************)
(* Python values                                                           *)
(***************************************************************************)
None == <<"None">>

Empty == <<>>

\* what a call that raises (TypeError, AttributeError) leaves in place of a
\* result
Raised == <<"TypeError">>

\* d.get(k, default)
DictGet(d, k, default) == IF k \in DOMAIN d THEN d[k] ELSE default

\* bool(s) of an optional str: None and "" are false
Truthy(s) == s # None /\ s # <<>>

\* (s or "")
OrEmpty(s) == IF Truthy(s) THEN s ELSE <<>>

UpperLetters == <<"A","B","C","D","E","F","G","H","I","J","K","L","M",
                  "N","O","P","Q","R","S","T","U","V","W","X","Y","Z">>

LowerLetters == <<"a","b","c","d","e","f","g","h","i","j","k","l","m",
                  "n","o","p","q","r","s","t","u","v","w","x","y","z">>

UpperSet == {UpperLetters[i] : i \in 1..26}

LowerSet == {LowerLetters[i] : i \in 1..26}

ToLower == [c \in UpperSet |-> LowerLetters[CHOOSE i \in 1..26 : UpperLetters[i] = c]]

ToUpper == [c \in LowerSet |-> UpperLetters[CHOOSE i \in 1..26 : LowerLetters[i] = c]]

LowerChar(c) == IF c \in UpperSet THEN ToLower[c] ELSE c

UpperChar(c) == IF c \in LowerSet THEN ToUpper[c] ELSE c

\* s.lower()
StrLower(s) == [i \in 1..Len(s) |-> LowerChar(s[i])]

\* s.upper()
StrUpper(s) == [i \in 1..Len(s) |-> UpperChar(s[i])]

IsSpace(c) == c \in {" ", "\t", "\n", "\r"}

RECURSIVE LStrip(_)
LStrip(s) == IF s # <<>> /\ IsSpace(Head(s)) THEN LStrip(Tail(s)) ELSE s

RECURSIVE RStrip(_)
RStrip(s) ==
    IF s # <<>> /\ IsSpace(s[Len(s)]) THEN RStrip(SubSeq(s, 1, Len(s) - 1)) ELSE s

\* s.strip()
StrStrip(s) == RStrip(LStrip(s))

\* (k in text) for two strs
StrContains(k, text) ==
    \E i \in 0..(Len(text) - Len(k)) : SubSeq(text, i + 1, i + Len(k)) = k

Max(a, b) == IF a >= b THEN a ELSE b

Min(a, b) == IF a <= b THEN a ELSE b

(***************************************************************************)
(* Severity labels                                                         *)
(***************************************************************************)
INFO == <<"I","N","F","O">>

LOW == <<"L","O","W">>

MEDIUM == <<"M","E","D","I","U","M">>

HIGH == <<"H","I","G","H">>

CRITICAL == <<"C","R","I","T","I","C","A","L">>

SEV_ORDER == <<INFO, LOW, MEDIUM, HIGH, CRITICAL>>

Labels == {SEV_ORDER[i] : i \in 1..Len(SEV_ORDER)}

(***************************************************************************)
(* JSON values of the risk metadata file and of the escalation thresholds: *)
(* a number (a score in tenths, a threshold as it is), a string, null, or  *)
(* an object.                                                              *)
(***************************************************************************)
JNum(n) == [t |-> "num", v |-> n]

JStr(s) == [t |-> "str", v |-> s]

JNull == [t |-> "null", v |-> 0]

JObj(d) == [t |-> "obj", v |-> d]

JList(q) == [t |-> "list", v |-> q]

\* bool(x) of a JSON value is false: null, 0, "", [] and {}
JFalsy(x) ==
    CASE x.t = "null" -> TRUE
      [] x.t = "num" -> x.v = 0
      [] x.t = "str" -> Len(x.v) = 0
      [] x.t = "list" -> Len(x.v) = 0
      [] x.t = "obj" -> DOMAIN x.v = {}

(***************************************************************************)
(* Files: absent, present but not JSON, or present with a JSON value.  In  *)
(* a mapping file the top level and, in an object, its members are tagged  *)
(* JSON values; the content of a member object is a dict as the engine     *)
(* holds it.  json_load is open() and json.load(): it raises for an absent *)
(* file and for one that is not JSON.                                      *)
(***************************************************************************)
AbsentFile == [kind |-> "absent", v |-> JNull]

GarbageFile == [kind |-> "garbage", v |-> JNull]

JsonFile(v) == [kind |-> "json", v |-> v]

\* no file is represented
NoFile == [kind |-> "none", v |-> JNull]

\* load_mapping_file has not been called
NotLoaded == [profile |-> "none", mapping |-> Empty]

json_load(file) == [ok |-> file.kind = "json", v |-> file.v]

\* a loaded JSON object as the dict Python holds: a member that is an object
\* by its content, any other member as the tagged value
AsDict(x) == [k \in DOMAIN x.v |-> IF x.v[k].t = "obj" THEN x.v[k].v ELSE x.v[k]]

\* load_mapping_file(path, profile) of the command-line parser
load_mapping_file(file, profile) ==
    LET loaded == json_load(file)
        data == loaded.v
    IN  IF file.kind = "absent" THEN Empty
        ELSE IF ~loaded.ok THEN Empty
        ELSE IF data.t = "obj" /\ profile \in DOMAIN data.v /\ data.v[profile].t = "obj"
             THEN data.v[profile].v
        ELSE IF data.t = "obj" THEN AsDict(data)
        ELSE Empty

Digits == <<"0","1","2","3","4","5","6","7","8","9">>

IsDigit(c) == \E i \in 1..10 : Digits[i] = c

DigitVal(c) == (CHOOSE i \in 1..10 : Digits[i] = c) - 1

RECURSIVE NatOf(_)
NatOf(s) == IF s = <<>> THEN 0 ELSE 10 * NatOf(SubSeq(s, 1, Len(s) - 1)) + DigitVal(s[Len(s)])

AllDigits(s) == s # <<>> /\ \A i \in 1..Len(s) : IsDigit(s[i])

\* The decimal numerals float() is modelled on: digits, or digits "." digit,
\* after strip().  Any other str makes float() raise ValueError.
ParsesAsFloat(s) ==
    LET x == StrStrip(s) IN
    \/ AllDigits(x)
    \/ /\ Len(x) >= 3
       /\ x[Len(x) - 1] = "."
       /\ IsDigit(x[Len(x)])
       /\ AllDigits(SubSeq(x, 1, Len(x) - 2))

ParsedFloat(s) ==
    LET x == StrStrip(s) IN
    IF AllDigits(x) THEN 10 * NatOf(x)
    ELSE 10 * NatOf(SubSeq(x, 1, Len(x) - 2)) + DigitVal(x[Len(x)])

\* float(val) inside try/except: ok is FALSE when float() raises
\* (ValueError for an unparsable str, TypeError for an object).
FloatOf(val) ==
    CASE val.t = "num" -> [ok |-> TRUE, v |-> val.v]
      [] val.t = "str" -> IF ParsesAsFloat(val.v)
                          THEN [ok |-> TRUE, v |-> ParsedFloat(val.v)]
                          ELSE [ok |-> FALSE, v |-> 0]
      [] OTHER -> [ok |-> FALSE, v |-> 0]

(***************************************************************************)
(* The command-line parser's severity utilities (src/oci-parser.py)        *)
(***************************************************************************)
SEVERITY_RANK == <<INFO, LOW, MEDIUM, HIGH, CRITICAL>>

\* sev_index: the index of level.upper() in SEVERITY_RANK, 0 for None, ""
\* and any other string
sev_index(level) ==
    IF Truthy(level) /\ \E i \in 1..Len(SEVERITY_RANK) : SEVERITY_RANK[i] = StrUpper(level)
    THEN (CHOOSE i \in 1..Len(SEVERITY_RANK) : SEVERITY_RANK[i] = StrUpper(level)) - 1
    ELSE 0

\* bump_severity
bump_severity(level, steps) ==
    SEVERITY_RANK[Min(Len(SEVERITY_RANK) - 1, sev_index(level) + steps) + 1]

\* max_severity
max_severity(a, b) == IF sev_index(a) >= sev_index(b) THEN a ELSE b

(***************************************************************************)
(* analyze_uris of the command-line parser ("cli") and of the core module  *)
(* ("core")                                                                *)
(***************************************************************************)
\* MITRE_FALSE_NEGATIVE_URI_PATTERNS of each script, the rows whose regex is
\* an alternation of literals: each row is kept as the set of its
\* alternatives, in lower case
UriPatterns(script) ==
    IF script = "cli"
    THEN (<<"T","1","5","9","5",".","0","0","1">> :> {<<"/","a","d","m","i","n">>,
                         <<"/","l","o","g","i","n">>,
                         <<"/","w","p","-","l","o","g","i","n",".","p","h","p">>,
                         <<"/","p","a","n","e","l">>,
                         <<"/","d","a","s","h","b","o","a","r","d">>,
                         <<"/","c","o","n","f","i","g">>,
                         <<"/","s","e","t","u","p">>,
                         <<"/","d","e","v">>,
                         <<"/","t","e","s","t">>}
          @@ <<"T","1","1","1","0",".","0","0","3">> :> {<<"/","w","p","-","l","o","g","i","n",".","p","h","p">>,
                         <<"/","x","m","l","r","p","c",".","p","h","p">>})
    ELSE (<<"T","1","1","1","0",".","0","0","1">> :> {<<"/","l","o","g","i","n">>,
                         <<"/","s","i","g","n","i","n">>,
                         <<"/","m","t","o","s","/","l","o","g","i","n","/","l","o","g","i","n",".","m","t","o","s">>,
                         <<"/","w","p","-","l","o","g","i","n",".","p","h","p">>,
                         <<"/","x","m","l","r","p","c",".","p","h","p">>}
          @@ <<"T","1","5","0","5",".","0","0","3">> :> {<<"p","h","p","u","n","i","t">>,
                         <<"e","v","a","l","-","s","t","d","i","n",".","p","h","p">>})

\* re.search(pattern, uri, re.IGNORECASE) for such a row
ReSearch(pattern, uri) == \E a \in pattern : StrContains(a, StrLower(uri))

\* s.split(): the maximal runs of non-whitespace
RECURSIVE StrSplit(_)
StrSplit(s) ==
    LET t == LStrip(s)
    IN  IF t = <<>> THEN <<>>
        ELSE LET ends == {i \in 1..Len(t) : IsSpace(t[i])}
                 n == IF ends = {} THEN Len(t) + 1
                      ELSE CHOOSE i \in ends : \A j \in ends : i <= j
             IN  <<SubSeq(t, 1, n - 1)>> \o StrSplit(SubSeq(t, n, Len(t)))

\* _get_uri of the core module: "URI", else "uri", else the second word of
\* the request line, else ""
get_uri(entry) ==
    IF "URI" \in DOMAIN entry /\ Truthy(entry["URI"]) THEN entry["URI"]
    ELSE IF "uri" \in DOMAIN entry /\ Truthy(entry["uri"]) THEN entry["uri"]
    ELSE LET r == DictGet(entry, "request", None)
             req == IF Truthy(r) THEN r ELSE DictGet(entry, "Request", None)
         IN  IF req # None /\ Len(StrSplit(req)) >= 2 THEN StrSplit(req)[2]
             ELSE <<>>

\* one pass of the loop over the entries.  The command-line parser reads
\* entry.get("URI", "") and appends every matching uri; the core module
\* reads _get_uri, skips an empty uri and appends a uri not yet listed
AnalyzeEntry(script, summary, entry) ==
    LET uri == IF script = "cli" THEN DictGet(entry, "URI", <<>>) ELSE get_uri(entry)
        pats == UriPatterns(script)
        hits == IF script = "core" /\ uri = <<>> THEN {}
                ELSE {t \in DOMAIN pats : ReSearch(pats[t], uri)}
        old(t) == IF t \in DOMAIN summary THEN summary[t]
                  ELSE IF script = "cli"
                       THEN [count |-> 0, requests |-> 0, uris |-> <<>>, entries |-> <<>>]
                       ELSE [count |-> 0, uris |-> <<>>, entries |-> <<>>]
        new(t) == IF script = "cli"
                  THEN [count |-> old(t).count + 1,
                        requests |-> old(t).requests + DictGet(entry, "request_count", 0),
                        uris |-> Append(old(t).uris, uri),
                        entries |-> Append(old(t).entries, entry)]
                  ELSE [count |-> old(t).count + 1,
                        uris |-> IF \E k \in 1..Len(old(t).uris) : old(t).uris[k] = uri
                                 THEN old(t).uris
                                 ELSE Append(old(t).uris, uri),
                        entries |-> Append(old(t).entries, entry)]
    IN  [t \in (DOMAIN summary) \cup hits |-> IF t \in hits THEN new(t) ELSE summary[t]]

\* analyze_uris: the summary after the loop
RECURSIVE analyze_uris(_, _, _)
analyze_uris(script, summary, entries) ==
    IF entries = <<>> THEN summary
    ELSE analyze_uris(script, AnalyzeEntry(script, summary, Head(entries)), Tail(entries))

(***************************************************************************)
(* SeverityEngine: helpers                                                 *)
(***************************************************************************)
\* _rank: the index of sev.upper() in SEV_ORDER, 0 (INFO) when it is none
Rank(sev) ==
    LET u == StrUpper(OrEmpty(sev)) IN
    IF \E i \in 1..Len(SEV_ORDER) : SEV_ORDER[i] = u
    THEN (CHOOSE i \in 1..Len(SEV_ORDER) : SEV_ORDER[i] = u) - 1
    ELSE 0

\* _max_severity with the comparison turned round
MaxSeverityReversed(a, b) == IF Rank(a) <= Rank(b) THEN a ELSE b

\* _max_severity
MaxSeverity(a, b) == IF Rank(a) >= Rank(b) THEN a ELSE b

\* _severity_from_risk_score with each boundary in the lower bucket
SeverityFromRiskScoreStrict(score) ==
    IF score > 9000 THEN CRITICAL
    ELSE IF score > 7000 THEN HIGH
    ELSE IF score > 4000 THEN MEDIUM
    ELSE IF score > 0 THEN LOW
    ELSE INFO

\* _severity_from_risk_score (score in hundredths)
SeverityFromRiskScore(score) ==
    IF score >= 9000 THEN CRITICAL
    ELSE IF score >= 7000 THEN HIGH
    ELSE IF score >= 4000 THEN MEDIUM
    ELSE IF score > 0 THEN LOW
    ELSE INFO

\* _has_critical_keyword
HasCriticalKeyword(hostname, identity) ==
    LET text == StrLower(OrEmpty(hostname) \o <<" ">> \o OrEmpty(identity)) IN
    IF text = <<>> THEN FALSE
    ELSE \E kw \in critical_asset_keywords : kw # <<>> /\ StrContains(kw, text)

\* _asset_factor looking the hostname up as it was passed
AssetFactorAsPassed(hostname, identity) ==
    LET h == OrEmpty(hostname)
        i == StrStrip(StrLower(OrEmpty(identity)))
        text == h \o <<" ">> \o i
    IN  IF h \in DOMAIN asset_criticality THEN asset_criticality[h]
        ELSE IF \E k \in critical_asset_keywords : StrContains(k, text) THEN 14
        ELSE 10

\* _asset_factor looking for a keyword before the hostname is looked up
AssetFactorKeywordFirst(hostname, identity) ==
    LET h == StrStrip(StrLower(OrEmpty(hostname)))
        i == StrStrip(StrLower(OrEmpty(identity)))
        text == h \o <<" ">> \o i
    IN  IF \E k \in critical_asset_keywords : StrContains(k, text) THEN 14
        ELSE IF h \in DOMAIN asset_criticality THEN asset_criticality[h]
        ELSE 10

\* _asset_factor (in tenths)
AssetFactor(hostname, identity) ==
    LET h == StrStrip(StrLower(OrEmpty(hostname)))
        i == StrStrip(StrLower(OrEmpty(identity)))
        text == h \o <<" ">> \o i
    IN  IF h \in DOMAIN asset_criticality THEN asset_criticality[h]
        ELSE IF \E k \in critical_asset_keywords : StrContains(k, text) THEN 14
        ELSE 10

\* _volume_factor with a default count_high of 21
VolumeFactorDefaultHigh(count) ==
    LET count_high == DictGet(escalation, "count_high", JNum(21))
        count_critical == DictGet(escalation, "count_critical", JNum(200))
    IN  IF count_critical.t # "num" THEN [raised |-> TRUE, v |-> 0]
        ELSE IF count >= count_critical.v THEN [raised |-> FALSE, v |-> 300]
        ELSE IF count_high.t # "num" THEN [raised |-> TRUE, v |-> 0]
        ELSE IF count >= count_high.v THEN [raised |-> FALSE, v |-> 150]
        ELSE IF count > 0 THEN [raised |-> FALSE, v |-> 50]
        ELSE [raised |-> FALSE, v |-> 0]

\* _volume_factor with the two spike contributions exchanged
VolumeFactorSwapped(count) ==
    LET count_high == DictGet(escalation, "count_high", JNum(20))
        count_critical == DictGet(escalation, "count_critical", JNum(200))
    IN  IF count_critical.t # "num" THEN [raised |-> TRUE, v |-> 0]
        ELSE IF count >= count_critical.v THEN [raised |-> FALSE, v |-> 150]
        ELSE IF count_high.t # "num" THEN [raised |-> TRUE, v |-> 0]
        ELSE IF count >= count_high.v THEN [raised |-> FALSE, v |-> 300]
        ELSE IF count > 0 THEN [raised |-> FALSE, v |-> 50]
        ELSE [raised |-> FALSE, v |-> 0]

\* _volume_factor reading esc["count_high"] and esc["count_critical"] by
\* subscript: an absent key raises KeyError
VolumeFactorSubscript(count) ==
    IF {"count_high", "count_critical"} \subseteq DOMAIN escalation
    THEN LET count_high == escalation["count_high"]
             count_critical == escalation["count_critical"]
         IN  IF count_critical.t # "num" THEN [raised |-> TRUE, v |-> 0]
             ELSE IF count >= count_critical.v THEN [raised |-> FALSE, v |-> 300]
             ELSE IF count_high.t # "num" THEN [raised |-> TRUE, v |-> 0]
             ELSE IF count >= count_high.v THEN [raised |-> FALSE, v |-> 150]
             ELSE IF count > 0 THEN [raised |-> FALSE, v |-> 50]
             ELSE [raised |-> FALSE, v |-> 0]
    ELSE [raised |-> TRUE, v |-> 0]

\* _volume_factor (in tenths).  A threshold that is not a number makes the
\* comparison raise TypeError.
VolumeFactor(count) ==
    LET count_high == DictGet(escalation, "count_high", JNum(20))
        count_critical == DictGet(escalation, "count_critical", JNum(200))
    IN  IF count_critical.t # "num" THEN [raised |-> TRUE, v |-> 0]
        ELSE IF count >= count_critical.v THEN [raised |-> FALSE, v |-> 300]
        ELSE IF count_high.t # "num" THEN [raised |-> TRUE, v |-> 0]
        ELSE IF count >= count_high.v THEN [raised |-> FALSE, v |-> 150]
        ELSE IF count > 0 THEN [raised |-> FALSE, v |-> 50]
        ELSE [raised |-> FALSE, v |-> 0]

\* the defaults of `self.cvss.get("cvss_thresholds") or {...}`
DefaultCvssThresholds ==
    [critical_min |-> 90, high_min |-> 70, medium_min |-> 40, low_min |-> 1]

\* self.mitre_risk.get(mitre_id) if self.mitre_risk else None
RiskEntry(mitre_id) == DictGet(mitre_risk, mitre_id, JNull)

\* _cvss_for_mitre (in tenths)
CvssForMitre(mitre_id, base_severity) ==
    LET entry == RiskEntry(mitre_id)
        val == IF entry.t = "obj" THEN DictGet(entry.v, "cvss", JNull) ELSE JNull
        f == FloatOf(val)
        sev == StrUpper(base_severity)
        configured == DictGet(cvss, "cvss_thresholds", Empty)
        thresholds == IF DOMAIN configured # {} THEN configured
                      ELSE DefaultCvssThresholds
    IN  IF entry.t = "obj" /\ val.t # "null" /\ f.ok /\ 0 <= f.v /\ f.v <= 100
        THEN f.v
        ELSE IF sev = CRITICAL THEN Max(95, DictGet(thresholds, "critical_min", 90))
        ELSE IF sev = HIGH THEN Max(75, DictGet(thresholds, "high_min", 70))
        ELSE IF sev = MEDIUM THEN Max(55, DictGet(thresholds, "medium_min", 40))
        ELSE IF sev = LOW THEN Max(30, DictGet(thresholds, "low_min", 1))
        ELSE 10

\* _impact_for_mitre (in tenths)
ImpactForMitre(mitre_id, base_severity) ==
    LET entry == RiskEntry(mitre_id)
        val == IF entry.t = "obj" THEN DictGet(entry.v, "impact", JNull) ELSE JNull
        f == FloatOf(val)
        sev == StrUpper(base_severity)
    IN  IF entry.t = "obj" /\ val.t # "null" /\ f.ok /\ f.v >= 0
        THEN Min(f.v, 400)
        ELSE IF sev = CRITICAL THEN 400
        ELSE IF sev = HIGH THEN 300
        ELSE IF sev = MEDIUM THEN 200
        ELSE IF sev = LOW THEN 100
        ELSE 50

\* self.mitre_risk when the risk file holds the list [1] instead of an
\* object: `self.mitre_risk.get(mitre_id)` then raises AttributeError
RiskNotADict == JList(<<JNum(1)>>)

\* the clamp of _compute_risk_score (hundredths)
Clamp(risk) == IF risk < 0 THEN 0 ELSE IF risk > 10000 THEN 10000 ELSE risk

\* _compute_risk_score weighting the CVSS score by 10 instead of 6
ComputeRiskScoreWeightTen(mitre_id, base_severity, count, hostname, identity) ==
    LET sev == StrUpper(IF Truthy(base_severity) THEN base_severity ELSE LOW)
        cvss_score == CvssForMitre(mitre_id, sev)
        impact_score == ImpactForMitre(mitre_id, sev)
        volume == VolumeFactor(count)
        raw == (cvss_score * 10) + impact_score + volume.v
        scaled == raw * AssetFactor(hostname, identity)
        boosted == IF HasCriticalKeyword(hostname, identity)
                   THEN scaled + 1000 ELSE scaled
    IN  IF mitre_risk = RiskNotADict THEN [raised |-> TRUE, v |-> 0]
        ELSE IF volume.raised THEN [raised |-> TRUE, v |-> 0]
        ELSE [raised |-> FALSE, v |-> Clamp(boosted)]

\* _compute_risk_score adding the keyword bonus before the multiplication
ComputeRiskScoreBonusFirst(mitre_id, base_severity, count, hostname, identity) ==
    LET sev == StrUpper(IF Truthy(base_severity) THEN base_severity ELSE LOW)
        cvss_score == CvssForMitre(mitre_id, sev)
        impact_score == ImpactForMitre(mitre_id, sev)
        volume == VolumeFactor(count)
        raw == (cvss_score * 6) + impact_score + volume.v
        boosted == IF HasCriticalKeyword(hostname, identity)
                   THEN raw + 100 ELSE raw
        scaled == boosted * AssetFactor(hostname, identity)
    IN  IF mitre_risk = RiskNotADict THEN [raised |-> TRUE, v |-> 0]
        ELSE IF volume.raised THEN [raised |-> TRUE, v |-> 0]
        ELSE [raised |-> FALSE, v |-> Clamp(scaled)]

\* _compute_risk_score (in hundredths); raised when _cvss_for_mitre or
\* _volume_factor raises
ComputeRiskScore(mitre_id, base_severity, count, hostname, identity) ==
    LET sev == StrUpper(IF Truthy(base_severity) THEN base_severity ELSE LOW)
        cvss_score == CvssForMitre(mitre_id, sev)
        impact_score == ImpactForMitre(mitre_id, sev)
        volume == VolumeFactor(count)
        raw == (cvss_score * 6) + impact_score + volume.v
        scaled == raw * AssetFactor(hostname, identity)
        boosted == IF HasCriticalKeyword(hostname, identity)
                   THEN scaled + 1000 ELSE scaled
    IN  IF mitre_risk = RiskNotADict THEN [raised |-> TRUE, v |-> 0]
        ELSE IF volume.raised THEN [raised |-> TRUE, v |-> 0]
        ELSE [raised |-> FALSE, v |-> Clamp(boosted)]

\* the locals of _compute_risk_score before it has run, or when it raised
NoParts ==
    [ran |-> FALSE, cvss_score |-> 0, impact_score |-> 0, volume_score |-> 0,
     asset_factor |-> 0, keyword |-> FALSE]

\* the locals of _compute_risk_score when it returns: cvss_score,
\* impact_score and volume_score in tenths, asset_factor in tenths, and
\* whether _has_critical_keyword held
RiskParts(mitre_id, base_severity, count, hostname, identity) ==
    LET sev == StrUpper(IF Truthy(base_severity) THEN base_severity ELSE LOW)
    IN  IF ComputeRiskScore(mitre_id, base_severity, count, hostname, identity).raised
        THEN NoParts
        ELSE [ran |-> TRUE,
              cvss_score |-> CvssForMitre(mitre_id, sev),
              impact_score |-> ImpactForMitre(mitre_id, sev),
              volume_score |-> VolumeFactor(count).v,
              asset_factor |-> AssetFactor(hostname, identity),
              keyword |-> HasCriticalKeyword(hostname, identity)]

(***************************************************************************)
(* SeverityEngine: base severity and classify                              *)
(***************************************************************************)
\* _base_severity trying Profile A's category before Profile A's override
BaseSeverityCategoryFirst(mitre_id, category_hint) ==
    LET acu_overrides == DictGet(acu, "mitre_overrides", Empty)
        cvss_overrides == DictGet(cvss, "mitre_overrides", Empty)
        category2 == IF category_hint = None
                     THEN DictGet(DictGet(acu, "mitre_to_category", Empty), mitre_id, None)
                     ELSE category_hint
        sev2 == DictGet(DictGet(acu, "category_to_severity", Empty), category2, None)
        category3 == IF category2 = None
                     THEN DictGet(DictGet(cvss, "mitre_to_category", Empty), mitre_id, None)
                     ELSE category2
        sev3 == DictGet(DictGet(cvss, "category_to_severity", Empty), category3, None)
    IN  IF Truthy(category2) /\ Truthy(sev2) THEN <<sev2, category2>>
        ELSE IF mitre_id \in DOMAIN acu_overrides THEN <<acu_overrides[mitre_id], None>>
        ELSE IF Truthy(category3) /\ Truthy(sev3) THEN <<sev3, category3>>
        ELSE IF mitre_id \in DOMAIN cvss_overrides THEN <<cvss_overrides[mitre_id], category3>>
        ELSE <<None, category3>>

\* _base_severity preferring Profile A's category for the technique to the hint
BaseSeverityLookupFirst(mitre_id, category_hint) ==
    LET acu_overrides == DictGet(acu, "mitre_overrides", Empty)
        cvss_overrides == DictGet(cvss, "mitre_overrides", Empty)
        looked_up == DictGet(DictGet(acu, "mitre_to_category", Empty), mitre_id, None)
        category2 == IF looked_up = None THEN category_hint ELSE looked_up
        sev2 == DictGet(DictGet(acu, "category_to_severity", Empty), category2, None)
        category3 == IF category2 = None
                     THEN DictGet(DictGet(cvss, "mitre_to_category", Empty), mitre_id, None)
                     ELSE category2
        sev3 == DictGet(DictGet(cvss, "category_to_severity", Empty), category3, None)
    IN  IF mitre_id \in DOMAIN acu_overrides THEN <<acu_overrides[mitre_id], None>>
        ELSE IF Truthy(category2) /\ Truthy(sev2) THEN <<sev2, category2>>
        ELSE IF Truthy(category3) /\ Truthy(sev3) THEN <<sev3, category3>>
        ELSE IF mitre_id \in DOMAIN cvss_overrides THEN <<cvss_overrides[mitre_id], category3>>
        ELSE <<None, category3>>

\* _base_severity: <<severity or None, category or None>>
BaseSeverity(mitre_id, category_hint) ==
    LET acu_overrides == DictGet(acu, "mitre_overrides", Empty)
        cvss_overrides == DictGet(cvss, "mitre_overrides", Empty)
        category2 == IF category_hint = None
                     THEN DictGet(DictGet(acu, "mitre_to_category", Empty), mitre_id, None)
                     ELSE category_hint
        sev2 == DictGet(DictGet(acu, "category_to_severity", Empty), category2, None)
        category3 == IF category2 = None
                     THEN DictGet(DictGet(cvss, "mitre_to_category", Empty), mitre_id, None)
                     ELSE category2
        sev3 == DictGet(DictGet(cvss, "category_to_severity", Empty), category3, None)
    IN  IF mitre_id \in DOMAIN acu_overrides THEN <<acu_overrides[mitre_id], None>>
        ELSE IF Truthy(category2) /\ Truthy(sev2) THEN <<sev2, category2>>
        ELSE IF Truthy(category3) /\ Truthy(sev3) THEN <<sev3, category3>>
        ELSE IF mitre_id \in DOMAIN cvss_overrides THEN <<cvss_overrides[mitre_id], category3>>
        ELSE <<None, category3>>

\* the base severity classify works with: _base_severity, LOW when it is None
BaseOrLow(mitre_id, category_hint) ==
    LET b == BaseSeverity(StrStrip(OrEmpty(mitre_id)), category_hint)[1]
    IN  IF b = None THEN LOW ELSE b

\* classify: the severity returned, or Raised when the call raises
Classify(mitre_id, count, hostname, identity, category_hint) ==
    LET id == StrStrip(OrEmpty(mitre_id))
        base == BaseOrLow(mitre_id, category_hint)
        risk == ComputeRiskScore(id, base, count, hostname, identity)
    IN  IF risk.raised THEN Raised
        ELSE MaxSeverity(base, SeverityFromRiskScore(risk.v))

(***************************************************************************)
(* The values the model draws configurations and arguments from            *)
(***************************************************************************)
\* the largest count, and the largest configured threshold, that is enumerated
MaxCount == 3

T1190 == <<"T","1","1","9","0">>

T9999 == <<"T","9","9","9","9">>

\* technique ids passed to classify: known, unknown, padded, empty
MitreIds == {T1190, T9999, <<" ">> \o T1190 \o <<" ">>, <<>>}

\* counts passed to classify: the small ones, and the default thresholds
Counts == (-1..MaxCount) \cup {20, 200}

PelindoDomain == <<".","p","e","l","i","n","d","o",".","c","o",".","i","d">>

TosNusantara == <<"t","o","s","-","n","u","s","a","n","t","a","r","a">> \o PelindoDomain

Phinnisi == <<"p","h","i","n","n","i","s","i">> \o PelindoDomain

Parama == <<"p","a","r","a","m","a">> \o PelindoDomain

Praya == <<"p","r","a","y","a">> \o PelindoDomain

Ptosc == <<"p","t","o","s","c">> \o PelindoDomain

Ptosr == <<"p","t","o","s","r">> \o PelindoDomain

\* the hard-coded table of __init__ (weights in tenths)
AssetCriticalityTable ==
    (TosNusantara :> 15) @@ (Phinnisi :> 14) @@ (Parama :> 13) @@
    (Praya :> 12) @@ (Ptosc :> 11) @@ (Ptosr :> 11)

\* hostnames passed to classify: none, two of the table (one of them in
\* mixed case with a leading blank), and one outside the table
Hostnames ==
    {None,
     Ptosc,
     <<" ","T","O","S","-","N","u","s","a","n","t","a","r","a">> \o PelindoDomain,
     <<"d","b","1",".","l","o","c","a","l">>}

Identities == {None, <<"C","o","r","e"," ","D","B">>}

CatWeb == <<"w","e","b">>

CatScan == <<"s","c","a","n">>

\* category hints passed to classify, "" among them
Hints == {None, CatWeb, CatScan, <<>>}

\* severity strings of a mapping file: the five labels and case variants
SevStrings ==
    Labels \cup {<<"c","r","i","t","i","c","a","l">>, <<"H","i","g","h">>,
                 <<"i","n","f","o">>}

(***************************************************************************)
(* __init__: the engine built from the mapping JSON `data` and the risk     *)
(* metadata JSON `risk` ({} when the file is absent or unreadable)         *)
(***************************************************************************)
SeqRange(q) == {q[i] : i \in 1..Len(q)}

EngineInit(data, risk) ==
    LET a == DictGet(data, "acunetix", Empty)
        c == DictGet(data, "cvss", Empty)
        a_esc == DictGet(a, "escalation", Empty)
        c_esc == DictGet(c, "escalation", Empty)
        acu_kw == DictGet(a, "critical_asset_keywords", <<>>)
        cvss_kw == DictGet(c, "critical_asset_keywords", <<>>)
    IN  /\ mapping_raw = data
        /\ acu = a
        /\ cvss = c
        /\ escalation = IF DOMAIN a_esc # {} THEN a_esc
                        ELSE IF DOMAIN c_esc # {} THEN c_esc
                        ELSE Empty
        /\ critical_asset_keywords = {StrLower(k) : k \in SeqRange(acu_kw \o cvss_kw)}
        /\ asset_criticality = AssetCriticalityTable
        /\ mitre_risk = risk

\* the second caller before its first call: its position, the arguments and
\* locals of its call of classify, what that returned, and the calls completed
OtherIdle == [pc |-> "idle", call |-> None, base_sev |-> None, risk_score |-> None,
              ret |-> None, n |-> 0]

\* a caller about to call classify with these arguments
CallerInit(mitre_id, count, hostname, identity, category_hint) ==
    /\ call = [mitre_id |-> mitre_id, count |-> count, hostname |-> hostname,
               identity |-> identity, category_hint |-> category_hint]
    /\ base_sev = None
    /\ risk_score = None
    /\ risk_parts = NoParts
    /\ ret = None
    /\ pc = "call"
    /\ ncalls = 0
    /\ other = OtherIdle

\* no helper of the command-line parser has been called
\* the files are not looked at: the model starts from their parsed content
DiskIdle ==
    /\ mapping_file = NoFile
    /\ risk_file = NoFile
    /\ cli_mapping = NotLoaded

\* the number of entries lru_cache keeps.  The decorators say maxsize=128
\* (get_mitre_technique_by_id_lazy) and maxsize=512 (fetch_cvss_from_nvd);
\* the model keeps the mechanism and scales the size down
CacheMaxSize == 2

\* the fetches of one id that are enumerated
MaxFetches == 3

\* ids looked up: one more than the cache holds
LookupIds == 1..(CacheMaxSize + 1)

\* what a fetch returns: None when the service fails, else a value
FetchResults == {None, HIGH}

\* no lookup yet
CacheIdle ==
    /\ lru = <<>>
    /\ fetches = [i \in LookupIds |-> 0]

\* no call of the severity utilities yet
SevIdle ==
    /\ sev_a = None
    /\ sev_b = None
    /\ sev_max = None

\* what build_api_data returns for entries of no whitelisted tenant, and
\* what the model holds before it has returned
EmptyPayload ==
    [hostname |-> <<"-">>, identity |-> <<"-">>, total_attacks |-> 0,
     severity |-> <<>>, mitre |-> <<>>]

\* build_api_data not called
ApiIdle == api = [entries |-> <<>>, data |-> EmptyPayload]

\* analyze_uris not called
LogsIdle == logs = [script |-> "none", entries |-> <<>>, summary |-> <<>>]

ToolsIdle ==
    /\ SevIdle
    /\ DiskIdle
    /\ CacheIdle
    /\ LogsIdle
    /\ ApiIdle

\* nobody calls classify
CallerIdle ==
    /\ call = None
    /\ base_sev = None
    /\ risk_score = None
    /\ risk_parts = NoParts
    /\ ret = None
    /\ ncalls = 0
    /\ other = OtherIdle

(***************************************************************************)
(* Configurations that vary the risk inputs: one override per severity     *)
(* string, escalation thresholds, keywords, CVSS thresholds, risk metadata *)
(***************************************************************************)
RiskOverrides == {Empty} \cup {(T1190 :> s) : s \in SevStrings}

\* <<Profile A's escalation, Profile B's escalation>>
Escalations ==
    {<<Empty, Empty>>,
     <<[count_high |-> JNum(2), count_critical |-> JNum(MaxCount)], Empty>>,
     <<[count_high |-> JNum(MaxCount), count_critical |-> JNum(2)], Empty>>,
     <<("count_high" :> JNum(0)), [count_high |-> JNum(1), count_critical |-> JNum(2)]>>,
     <<Empty, ("count_critical" :> JNum(0))>>,
     <<("count_high" :> JStr(<<"2","0">>)), Empty>>}

\* <<Profile A's keyword list, Profile B's keyword list>>
KeywordLists ==
    {<<<<>>, <<>>>>,
     <<<< <<"D","B">> >>, <<>>>>,
     <<<< <<"t","o","s">> >>, << <<"d","b">>, <<"c","o","r","e">> >>>>,
     <<<<>>, << <<>> >>>>}

ConfiguredCvssThresholds ==
    [critical_min |-> 90, high_min |-> 80, medium_min |-> 40, low_min |-> 50]

RiskFiles ==
    {Empty,
     (T1190 :> JObj([cvss |-> JNum(98), impact |-> JNum(400)])),
     (T1190 :> JObj([cvss |-> JStr(<<"h","i","g","h">>), impact |-> JNum(-50)])),
     (T1190 :> JObj([cvss |-> JNum(0), impact |-> JNum(0)])),
     (T9999 :> JObj([cvss |-> JStr(<<"9",".","8">>), impact |-> JNum(550)])),
     (T1190 :> JNum(70))}

\* <<Profile B's cvss_thresholds, the risk metadata>>
RiskSides == {<<Empty, r>> : r \in RiskFiles} \cup {<<ConfiguredCvssThresholds, Empty>>}

RiskMapping(ov, esc, kw, th) ==
    [acunetix |-> [mitre_overrides |-> ov,
                   escalation |-> esc[1],
                   critical_asset_keywords |-> kw[1]],
     cvss |-> [escalation |-> esc[2],
               critical_asset_keywords |-> kw[2],
               cvss_thresholds |-> th]]

InitRisk ==
    /\ \E ov \in RiskOverrides, esc \in Escalations, kw \in KeywordLists,
          side \in RiskSides :
            EngineInit(RiskMapping(ov, esc, kw, side[1]), side[2])
    /\ \E m \in {T1190, T9999, <<>>}, n \in Counts, h \in Hostnames, i \in Identities :
            CallerInit(m, n, h, i, None)
    /\ ToolsIdle

(***************************************************************************)
(* Configurations that vary the static tables of both profiles; no         *)
(* escalation, keywords or risk metadata                                   *)
(***************************************************************************)
AcuOverrides == {Empty, (T1190 :> CRITICAL), (T1190 :> <<"i","n","f","o">>)}

AcuMitreToCategory == {Empty, (T1190 :> CatWeb), (T1190 :> CatScan)}

AcuCategoryToSeverity == {Empty, (CatWeb :> HIGH), (CatScan :> MEDIUM), (<<>> :> HIGH)}

CvssOverrides == {Empty, (T1190 :> MEDIUM)}

CvssMitreToCategory == {Empty, (T1190 :> CatWeb), (T1190 :> CatScan)}

CvssCategoryToSeverity ==
    {Empty, (CatWeb :> LOW), (CatScan :> CRITICAL),
     (CatWeb :> INFO) @@ (CatScan :> <<"H","i","g","h">>)}

BaseMapping(ao, am, ac, co, cm, cc) ==
    [acunetix |-> [mitre_overrides |-> ao, mitre_to_category |-> am,
                   category_to_severity |-> ac],
     cvss |-> [mitre_overrides |-> co, mitre_to_category |-> cm,
               category_to_severity |-> cc]]

InitBase ==
    /\ \E ao \in AcuOverrides, am \in AcuMitreToCategory, ac \in AcuCategoryToSeverity,
          co \in CvssOverrides, cm \in CvssMitreToCategory, cc \in CvssCategoryToSeverity :
            EngineInit(BaseMapping(ao, am, ac, co, cm, cc), Empty)
    /\ \E m \in MitreIds, n \in {0, 200}, g \in Hints :
            CallerInit(m, n, None, None, g)
    /\ ToolsIdle

(***************************************************************************)
(* The engine with nothing loaded: an empty mapping and no risk metadata   *)
(***************************************************************************)
\* counts on both sides of the default thresholds 20 and 200
DefaultCounts == (0..MaxCount) \cup {5, 19, 20, 21, 199, 200, 250}

InitDefault ==
    /\ EngineInit(Empty, Empty)
    /\ \E m \in MitreIds, n \in DefaultCounts, h \in Hostnames, i \in Identities,
          g \in Hints :
            CallerInit(m, n, h, i, g)
    /\ ToolsIdle

(***************************************************************************)
(* Callers of the two max functions: _max_severity of the engine and       *)
(* max_severity of the command-line parser                                 *)
(***************************************************************************)
\* severity strings passed to them: the labels, case variants, None, ""
\* and a string that is no label
SevArgs == SevStrings \cup {None, <<>>, <<"u","r","g","e","n","t">>}

InitMax ==
    /\ EngineInit(Empty, Empty)
    /\ CallerIdle
    /\ pc = "max"
    /\ sev_a \in SevArgs
    /\ sev_b \in SevArgs
    /\ sev_max = None
    /\ DiskIdle
    /\ CacheIdle
    /\ LogsIdle
    /\ ApiIdle

(***************************************************************************)
(* Two callers that share one engine and call classify again and again     *)
(***************************************************************************)
\* the calls each caller completes at most
MaxCalls == 2

CoreDb == <<"C","o","r","e"," ","D","B">>

\* the arguments of the repeated calls
SeqCalls ==
    [mitre_id : {T1190, T9999}, count : {0, 200}, hostname : {None, Ptosc},
     identity : {CoreDb}, category_hint : {None, CatWeb}]

\* <<mapping, risk metadata>> of the shared engine: nothing loaded; an
\* override with thresholds, a keyword and risk metadata; both profiles'
\* category tables with an override in Profile B
SeqEngines ==
    {<<Empty, Empty>>,
     <<RiskMapping((T1190 :> HIGH),
                   <<[count_high |-> JNum(2), count_critical |-> JNum(MaxCount)], Empty>>,
                   <<<< <<"D","B">> >>, <<>>>>, Empty),
       (T1190 :> JObj([cvss |-> JNum(98), impact |-> JNum(400)]))>>,
     <<BaseMapping(Empty, (T1190 :> CatScan), (CatWeb :> HIGH),
                   (T1190 :> MEDIUM), (T1190 :> CatWeb), (CatWeb :> LOW)),
       Empty>>}

InitSeq ==
    /\ \E e \in SeqEngines : EngineInit(e[1], e[2])
    /\ \E c \in SeqCalls :
            CallerInit(c.mitre_id, c.count, c.hostname, c.identity, c.category_hint)
    /\ ToolsIdle

(***************************************************************************)
(* __init__ reading the two files                                          *)
(***************************************************************************)
\* `data.get(k, {}) or {}` on the loaded top-level object
Section(top, k) ==
    LET x == DictGet(top.v, k, JObj(Empty)) IN
    IF JFalsy(x) THEN JObj(Empty) ELSE x

\* the content of the mapping file as __init__ keeps it: {} when the file is
\* absent or not JSON
LoadedMapping(mf) == IF json_load(mf).ok THEN json_load(mf).v ELSE JObj(Empty)

\* __init__ raises AttributeError: `data.get` on a top level that is no
\* object, `self.acu.get` or `self.cvss.get` on a section that is none
ConstructorRaises(mf) ==
    LET top == LoadedMapping(mf) IN
    \/ top.t # "obj"
    \/ Section(top, "acunetix").t # "obj"
    \/ Section(top, "cvss").t # "obj"

\* self.mitre_risk: `json.load(f) or {}`, {} when the file is absent or not
\* JSON
LoadedRisk(rf) ==
    LET r == json_load(rf) IN
    IF r.ok /\ ~JFalsy(r.v)
    THEN (IF r.v.t = "obj" THEN r.v.v ELSE r.v)
    ELSE Empty

\* the engine __init__ builds from the files.  When it raises there is no
\* engine.  (mapping_raw holds {} for a section that `or {}` replaced.)
EngineFromFiles(mf, rf) ==
    IF ConstructorRaises(mf)
    THEN /\ mapping_raw = None
         /\ acu = None
         /\ cvss = None
         /\ escalation = None
         /\ critical_asset_keywords = None
         /\ asset_criticality = None
         /\ mitre_risk = None
    ELSE LET top == LoadedMapping(mf)
             data == [k \in DOMAIN top.v |->
                        IF k \in {"acunetix", "cvss"} THEN Section(top, k).v
                        ELSE AsDict(top)[k]]
         IN  EngineInit(data, LoadedRisk(rf))

FlatOverrides == (T1190 :> CRITICAL)

\* mapping files: absent; not JSON; a top level that is no object ([] , null,
\* "x", 7); {}; a section that is null, a list or a string; a file with
\* both sections; and a flat file, whose tables are at the top level
MappingFilesOnDisk ==
    <<AbsentFile,
      GarbageFile,
      JsonFile(JList(<<>>)),
      JsonFile(JNull),
      JsonFile(JStr(<<"x">>)),
      JsonFile(JNum(7)),
      JsonFile(JObj(Empty)),
      JsonFile(JObj([acunetix |-> JNull])),
      JsonFile(JObj([acunetix |-> JList(<<JNum(1)>>)])),
      JsonFile(JObj([acunetix |-> JObj(Empty), cvss |-> JStr(<<"x">>)])),
      JsonFile(JObj([acunetix |-> JObj([mitre_overrides |-> (T1190 :> HIGH)]),
                     cvss |-> JObj([mitre_overrides |-> (T9999 :> MEDIUM)])])),
      JsonFile(JObj([mitre_overrides |-> JObj(FlatOverrides),
                     mitre_to_category |-> JObj((T9999 :> CatWeb)),
                     category_to_severity |-> JObj((CatWeb :> HIGH)),
                     escalation |-> JObj([count_high |-> JNum(2),
                                          count_critical |-> JNum(MaxCount)]),
                     critical_asset_keywords |-> JList(<<JStr(<<"D","B">>)>>)]))>>

\* risk metadata files: absent; not JSON; {}; null; the list [1]; an entry
RiskFilesOnDisk ==
    <<AbsentFile,
      GarbageFile,
      JsonFile(JObj(Empty)),
      JsonFile(JNull),
      JsonFile(RiskNotADict),
      JsonFile(JObj((T1190 :> JObj([cvss |-> JNum(98), impact |-> JNum(400)]))))>>

InitFiles ==
    /\ \E i \in 1..Len(MappingFilesOnDisk), j \in 1..Len(RiskFilesOnDisk) :
          /\ mapping_file = MappingFilesOnDisk[i]
          /\ risk_file = RiskFilesOnDisk[j]
          /\ EngineFromFiles(MappingFilesOnDisk[i], RiskFilesOnDisk[j])
          /\ IF ConstructorRaises(MappingFilesOnDisk[i])
             THEN CallerIdle /\ pc = "failed"
             ELSE \E m \in {T1190, T9999}, n \in {0, MaxCount}, g \in {None, CatWeb} :
                      CallerInit(m, n, None, CoreDb, g)
    /\ cli_mapping = NotLoaded
    /\ SevIdle
    /\ CacheIdle
    /\ LogsIdle
    /\ ApiIdle

(***************************************************************************)
(* A process that looks techniques and CVEs up through lru_cache           *)
(***************************************************************************)
InitCache ==
    /\ EngineInit(Empty, Empty)
    /\ CallerIdle
    /\ pc = "lookup"
    /\ SevIdle
    /\ DiskIdle
    /\ CacheIdle
    /\ LogsIdle
    /\ ApiIdle

(***************************************************************************)
(* build_api_data of the dashboard server                                  *)
(***************************************************************************)
WHITELIST_TENANTS == {TosNusantara, Praya, Parama, Phinnisi, Ptosc, Ptosr}

\* HOSTNAME_IDENTITY_MAP, the rows of the tenants the entries below name
HOSTNAME_IDENTITY_MAP ==
    (TosNusantara :> <<"T","e","r","m","i","n","a","l"," ","O","p","e","r","a","t","i","n","g"," ","S","y","s","t","e","m"," ","N","u","s","a","n","t","a","r","a"," ","C","l","u","s","t","e","r"," ","2"," ","-"," ","P","a","l","a","p","a">>)
    @@ (Ptosc :> <<"P","e","l","i","n","d","o"," ","T","e","r","m","i","n","a","l"," ","O","p","e","r","a","t","i","n","g"," ","S","y","s","t","e","m"," ","C","a","r">>)

\* extract_hostname: the first of the fields that is set, trimmed and in
\* lower case; None when none is set
extract_hostname(e) ==
    LET keys == <<"Host Name (Server)", "hostname", "host", "server", "Host">>
        set == {k \in 1..Len(keys) : keys[k] \in DOMAIN e /\ Truthy(e[keys[k]])}
    IN  IF set = {} THEN None
        ELSE StrLower(StrStrip(e[keys[CHOOSE k \in set : \A j \in set : k <= j]]))

\* choose_primary_tenant: the whitelisted hostname of most entries, the one
\* met first among equals (Counter.most_common(1)); "-" when there is none
choose_primary_tenant(entries) ==
    LET host(i) == extract_hostname(entries[i])
        listed == {i \in 1..Len(entries) : host(i) \in WHITELIST_TENANTS}
        events(i) == Cardinality({j \in listed : host(j) = host(i)})
        best == {i \in listed : \A j \in listed : events(i) >= events(j)}
    IN  IF listed = {} THEN <<"-">>
        ELSE host(CHOOSE i \in best : \A j \in best : i <= j)

\* sum(f[x] for x in S)
RECURSIVE SetSum(_, _)
SetSum(f, S) ==
    IF S = {} THEN 0
    ELSE LET x == CHOOSE y \in S : TRUE IN f[x] + SetSum(f, S \ {x})

\* build_api_data summarising all entries, those of other hosts included
build_api_data_unfiltered(entries) ==
    LET filtered == SelectSeq(entries,
                        LAMBDA e : extract_hostname(e) \in WHITELIST_TENANTS)
        summary == analyze_uris("core", <<>>, entries)
        count == [mid \in DOMAIN summary |-> summary[mid].count]
        hostname == choose_primary_tenant(filtered)
        identity == DictGet(HOSTNAME_IDENTITY_MAP, hostname, <<"-">>)
        sev == [mid \in DOMAIN summary |->
                   Classify(mid, count[mid], hostname, identity, None)]
        labels == {sev[mid] : mid \in DOMAIN summary}
    IN  IF filtered = <<>> THEN [raised |-> FALSE, v |-> EmptyPayload]
        ELSE IF Raised \in labels THEN [raised |-> TRUE, v |-> EmptyPayload]
        ELSE [raised |-> FALSE,
              v |-> [hostname |-> hostname,
                     identity |-> identity,
                     total_attacks |-> SetSum(count, DOMAIN summary),
                     severity |-> [l \in labels |->
                         SetSum(count, {mid \in DOMAIN summary : sev[mid] = l})],
                     mitre |-> [mid \in DOMAIN summary |->
                         [severity |-> sev[mid], count |-> count[mid]]]]]

\* build_api_data: hostname, identity, total_attacks, the severity
\* distribution (label -> value, returned as the two lists "labels" and
\* "values") and the rows of "mitre" (by technique).  raised when classify
\* raises.  The owasp, timeline and tenants parts of the payload read
\* tables and timestamps that are not modelled.
build_api_data(entries) ==
    LET filtered == SelectSeq(entries,
                        LAMBDA e : extract_hostname(e) \in WHITELIST_TENANTS)
        summary == analyze_uris("core", <<>>, filtered)
        count == [mid \in DOMAIN summary |-> summary[mid].count]
        hostname == choose_primary_tenant(filtered)
        identity == DictGet(HOSTNAME_IDENTITY_MAP, hostname, <<"-">>)
        sev == [mid \in DOMAIN summary |->
                   Classify(mid, count[mid], hostname, identity, None)]
        labels == {sev[mid] : mid \in DOMAIN summary}
    IN  IF filtered = <<>> THEN [raised |-> FALSE, v |-> EmptyPayload]
        ELSE IF Raised \in labels THEN [raised |-> TRUE, v |-> EmptyPayload]
        ELSE [raised |-> FALSE,
              v |-> [hostname |-> hostname,
                     identity |-> identity,
                     total_attacks |-> SetSum(count, DOMAIN summary),
                     severity |-> [l \in labels |->
                         SetSum(count, {mid \in DOMAIN summary : sev[mid] = l})],
                     mitre |-> [mid \in DOMAIN summary |->
                         [severity |-> sev[mid], count |-> count[mid]]]]]

\* the entries of one list that are enumerated
MaxApiEntries == 3

\* log entries: two of whitelisted tenants (one matching one row of the
\* table, one matching two, its hostname in mixed case), one of another
\* host, and one of a whitelisted tenant that matches nothing
ApiEntries ==
    << ("Host Name (Server)" :> Ptosc) @@ ("URI" :> <<"/","w","p","-","l","o","g","i","n",".","p","h","p">>),
       ("Host Name (Server)" :> <<" ","T","O","S","-","N","u","s","a","n","t","a","r","a">> \o PelindoDomain)
           @@ ("URI" :> <<"/","p","h","p","u","n","i","t","/","L","o","g","i","n">>),
       ("Host Name (Server)" :> <<"d","b","1",".","l","o","c","a","l">>) @@ ("URI" :> <<"/","w","p","-","l","o","g","i","n",".","p","h","p">>),
       ("Host Name (Server)" :> Ptosc) @@ ("URI" :> <<"/","i","n","d","e","x",".","h","t","m","l">>) >>

\* overrides of the mapping file the server's engine is built from
ApiOverrides ==
    {Empty,
     (<<"T","1","1","1","0",".","0","0","1">> :> CRITICAL) @@ (<<"T","1","5","0","5",".","0","0","3">> :> <<"c","r","i","t","i","c","a","l">>),
     (<<"T","1","1","1","0",".","0","0","1">> :> INFO)}

InitApi ==
    /\ \E ov \in ApiOverrides :
          EngineInit([acunetix |-> [mitre_overrides |-> ov]], Empty)
    /\ CallerIdle
    /\ pc = "build"
    /\ SevIdle
    /\ DiskIdle
    /\ CacheIdle
    /\ LogsIdle
    /\ \E n \in 0..MaxApiEntries :
          \E ix \in [1..n -> 1..Len(ApiEntries)] :
             api = [entries |-> [k \in 1..n |-> ApiEntries[ix[k]]],
                    data |-> EmptyPayload]

(***************************************************************************)
(* A caller of analyze_uris with a list of log entries                     *)
(***************************************************************************)
\* the entries of one list that are enumerated
MaxEntries == 3

\* log entries: a request-target that matches two rows of the parser's
\* table, one that matches two rows of the core module's table, one that
\* matches nothing, and an entry that has only a request line
LogEntries ==
    << ("URI" :> <<"/","w","p","-","l","o","g","i","n",".","p","h","p">>),
       ("URI" :> <<"/","p","h","p","u","n","i","t","/","L","o","g","i","n">>),
       ("URI" :> <<"/","i","n","d","e","x",".","h","t","m","l">>),
       ("request" :> <<"G","E","T"," ","/","x","m","l","r","p","c",".","p","h","p"," ","H","T","T","P","/","1",".","1">>) >>

InitLogs ==
    /\ EngineInit(Empty, Empty)
    /\ CallerIdle
    /\ pc = "analyze"
    /\ SevIdle
    /\ DiskIdle
    /\ CacheIdle
    /\ ApiIdle
    /\ \E script \in {"cli", "core"}, n \in 0..MaxEntries :
          \E ix \in [1..n -> 1..Len(LogEntries)] :
             logs = [script |-> script,
                     entries |-> [k \in 1..n |-> LogEntries[ix[k]]],
                     summary |-> <<>>]

(***************************************************************************)
(* A caller of _severity_from_risk_score with a score                      *)
(***************************************************************************)
\* the scores passed run from -MaxScore to MaxScore (hundredths): the
\* clamped range 0..100 of _compute_risk_score and a margin on both sides
MaxScore == 10050

InitBucket ==
    /\ EngineInit(Empty, Empty)
    /\ call = None
    /\ base_sev = None
    /\ risk_score \in -MaxScore..MaxScore
    /\ risk_parts = NoParts
    /\ ret = None
    /\ ncalls = 0
    /\ other = OtherIdle
    /\ ToolsIdle
    /\ pc = "bucket"

\* the families that start from parsed content, and the two callers
Init == InitRisk \/ InitBase \/ InitDefault \/ InitMax \/ InitSeq

(***************************************************************************)
(* classify                                                                *)
(***************************************************************************)
\* The call of classify: the engine is read, never written.  A call that
\* raises leaves Raised in ret and no risk score.
ClassifyCall ==
    /\ pc = "call"
    /\ LET id == StrStrip(OrEmpty(call.mitre_id))
           base == BaseOrLow(call.mitre_id, call.category_hint)
           risk == ComputeRiskScore(id, base, call.count, call.hostname, call.identity)
       IN  /\ base_sev' = base
           /\ risk_score' = IF risk.raised THEN None ELSE risk.v
           /\ risk_parts' = RiskParts(id, base, call.count, call.hostname, call.identity)
           /\ ret' = Classify(call.mitre_id, call.count, call.hostname,
                              call.identity, call.category_hint)
    /\ pc' = "done"
    /\ ncalls' = ncalls + 1
    /\ UNCHANGED <<engine, call, other, tools>>

\* the caller calls classify again, with other arguments
NewCall ==
    /\ pc = "done"
    /\ ncalls < MaxCalls
    /\ call' \in SeqCalls
    /\ base_sev' = None
    /\ risk_score' = None
    /\ risk_parts' = NoParts
    /\ ret' = None
    /\ pc' = "call"
    /\ UNCHANGED <<engine, ncalls, other, tools>>

(***************************************************************************)
(* classify on the second caller's thread, statement by statement          *)
(***************************************************************************)
\* the second caller enters classify
OtherCall ==
    /\ other.pc \in {"idle", "returned"}
    /\ other.n < MaxCalls
    /\ \E c \in SeqCalls :
            other' = [pc |-> "base", call |-> c, base_sev |-> None,
                      risk_score |-> None, ret |-> None, n |-> other.n]
    /\ UNCHANGED <<engine, call, base_sev, risk_score, risk_parts, ret, pc, ncalls, tools>>

\* _base_severity, that makes a memo of the count in self.escalation
OtherBaseMemo ==
    /\ other.pc = "base"
    /\ other' = [other EXCEPT
                    !.base_sev = BaseOrLow(other.call.mitre_id, other.call.category_hint),
                    !.pc = "risk"]
    /\ escalation' = ("count_high" :> JNum(other.call.count))
    /\ UNCHANGED <<mapping_raw, acu, cvss, critical_asset_keywords, asset_criticality,
                   mitre_risk, call, base_sev, risk_score, risk_parts, ret, pc, ncalls, tools>>

\* base_sev, _ = self._base_severity(...); LOW when it is None
OtherBase ==
    /\ other.pc = "base"
    /\ other' = [other EXCEPT
                    !.base_sev = BaseOrLow(other.call.mitre_id, other.call.category_hint),
                    !.pc = "risk"]
    /\ UNCHANGED <<engine, call, base_sev, risk_score, risk_parts, ret, pc, ncalls, tools>>

\* risk_score = self._compute_risk_score(...); the call ends here when it raises
OtherRisk ==
    /\ other.pc = "risk"
    /\ LET risk == ComputeRiskScore(StrStrip(OrEmpty(other.call.mitre_id)),
                                    other.base_sev, other.call.count,
                                    other.call.hostname, other.call.identity)
       IN  other' = IF risk.raised
                    THEN [other EXCEPT !.ret = Raised, !.pc = "returned", !.n = @ + 1]
                    ELSE [other EXCEPT !.risk_score = risk.v, !.pc = "max"]
    /\ UNCHANGED <<engine, call, base_sev, risk_score, risk_parts, ret, pc, ncalls, tools>>

\* return self._max_severity(base_sev, risk_sev)
OtherReturn ==
    /\ other.pc = "max"
    /\ other' = [other EXCEPT
                    !.ret = MaxSeverity(other.base_sev,
                                        SeverityFromRiskScore(other.risk_score)),
                    !.pc = "returned",
                    !.n = @ + 1]
    /\ UNCHANGED <<engine, call, base_sev, risk_score, risk_parts, ret, pc, ncalls, tools>>

(***************************************************************************)
(* load_mapping_file of the command-line parser, for one of its profiles   *)
(***************************************************************************)
Profiles == {"acunetix", "cvss", "dynamic"}

LoadMappingFileCall ==
    /\ pc \in {"call", "done", "failed"}
    /\ mapping_file.kind # "none"
    /\ cli_mapping.profile = "none"
    /\ \E p \in Profiles :
            cli_mapping' = [profile |-> p, mapping |-> load_mapping_file(mapping_file, p)]
    /\ UNCHANGED <<engine, call, base_sev, risk_score, risk_parts, ret, pc, ncalls, other,
                   sev_a, sev_b, sev_max, mapping_file, risk_file, lru, fetches, logs,
                   api>>

(***************************************************************************)
(* get_mitre_technique_by_id_lazy / fetch_cvss_from_nvd behind lru_cache   *)
(***************************************************************************)
CachedIds == {lru[i].id : i \in 1..Len(lru)}

Without(q, id) == SelectSeq(q, LAMBDA e : e.id # id)

\* a hit: the entry becomes the most recently used, nothing is fetched
LookupHit ==
    /\ pc = "lookup"
    /\ \E i \in 1..Len(lru) :
          lru' = Append(Without(lru, lru[i].id), lru[i])
    /\ UNCHANGED <<engine, call, base_sev, risk_score, risk_parts, ret, pc, ncalls, other,
                   sev_a, sev_b, sev_max, mapping_file, risk_file, cli_mapping,
                   fetches, logs, api>>

\* a miss: the wrapped function asks the service, whatever it returns is
\* stored, and the least recently used entry is dropped from a full cache
LookupMiss ==
    /\ pc = "lookup"
    /\ \E id \in LookupIds \ CachedIds, r \in FetchResults :
          /\ fetches[id] < MaxFetches
          /\ fetches' = [fetches EXCEPT ![id] = @ + 1]
          /\ lru' = LET q == Append(lru, [id |-> id, result |-> r])
                    IN  IF Len(q) > CacheMaxSize THEN Tail(q) ELSE q
    /\ UNCHANGED <<engine, call, base_sev, risk_score, risk_parts, ret, pc, ncalls, other,
                   sev_a, sev_b, sev_max, mapping_file, risk_file, cli_mapping,
                   logs, api>>

(***************************************************************************)
(* analyze_uris                                                            *)
(***************************************************************************)
AnalyzeUrisCall ==
    /\ pc = "analyze"
    /\ logs' = [logs EXCEPT !.summary = analyze_uris(logs.script, <<>>, logs.entries)]
    /\ pc' = "analyzed"
    /\ UNCHANGED <<engine, call, base_sev, risk_score, risk_parts, ret, ncalls, other,
                   sev_a, sev_b, sev_max, mapping_file, risk_file, cli_mapping,
                   lru, fetches, api>>

(***************************************************************************)
(* build_api_data                                                          *)
(***************************************************************************)
BuildApiDataCall ==
    /\ pc = "build"
    /\ api' = [api EXCEPT !.data = build_api_data(api.entries).v]
    /\ pc' = IF build_api_data(api.entries).raised THEN "failed" ELSE "built"
    /\ UNCHANGED <<engine, call, base_sev, risk_score, risk_parts, ret, ncalls, other,
                   sev_a, sev_b, sev_max, mapping_file, risk_file, cli_mapping,
                   lru, fetches, logs>>

(***************************************************************************)
(* _max_severity and max_severity                                          *)
(***************************************************************************)
MaxSeverityCall ==
    /\ pc = "max"
    /\ sev_max' = [engine |-> MaxSeverity(sev_a, sev_b),
                   parser |-> max_severity(sev_a, sev_b)]
    /\ pc' = "maxed"
    /\ UNCHANGED <<engine, call, base_sev, risk_score, risk_parts, ret, ncalls, other, sev_a, sev_b,
                   mapping_file, risk_file, cli_mapping, lru, fetches, logs, api>>

\* _severity_from_risk_score
SeverityFromRiskScoreCall ==
    /\ pc = "bucket"
    /\ ret' = SeverityFromRiskScore(risk_score)
    /\ pc' = "bucketed"
    /\ UNCHANGED <<engine, call, base_sev, risk_score, risk_parts, ncalls, other,
                   tools>>

Next ==
    \/ ClassifyCall
    \/ MaxSeverityCall

\* every configuration and call of the families that start from parsed
\* content, and the callers of the two max functions
Spec == Init /\ [][Next]_vars

\* the configurations that vary the risk inputs
SpecRisk == InitRisk /\ [][ClassifyCall]_vars

\* the configurations that vary the static tables
SpecBase == InitBase /\ [][ClassifyCall]_vars

\* the engine with nothing loaded
SpecDefault == InitDefault /\ [][ClassifyCall]_vars

\* repeated and interleaved calls of classify on one engine
NextSeq ==
    \/ ClassifyCall
    \/ NewCall
    \/ OtherCall
    \/ OtherBase
    \/ OtherRisk
    \/ OtherReturn

SpecSeq == InitSeq /\ [][NextSeq]_vars

\* the two loaders on the files, and a call of classify where there is an
\* engine
NextFiles ==
    \/ ClassifyCall
    \/ LoadMappingFileCall

SpecFiles == InitFiles /\ [][NextFiles]_vars

\* the lookups of one process
NextCache ==
    \/ LookupHit
    \/ LookupMiss

SpecCache == InitCache /\ [][NextCache]_vars

\* C18: however many distinct ids one process looks up, the external
\* service is asked at most once for each id.
C18_FetchAtMostOnce ==
    \A id \in LookupIds : fetches[id] <= 1

\* the callers of build_api_data
SpecApi == InitApi /\ [][BuildApiDataCall]_vars

\* the callers of analyze_uris
SpecLogs == InitLogs /\ [][AnalyzeUrisCall]_vars

\* the entries whose request-target matches the row of technique t
C19_Matching(t) ==
    {i \in 1..Len(logs.entries) :
        ReSearch(UriPatterns(logs.script)[t], get_uri(logs.entries[i]))}

\* C19: after analyze_uris, the count of each technique is the number of
\* entries whose request-target matches its pattern, and its uri list
\* holds every distinct matching request-target exactly once.
C19_CountsAndDistinctUris ==
    pc = "analyzed" =>
        \A t \in DOMAIN UriPatterns(logs.script) :
            LET m == C19_Matching(t)
                item == logs.summary[t]
            IN  IF m = {} THEN t \notin DOMAIN logs.summary
                ELSE /\ t \in DOMAIN logs.summary
                     /\ item.count = Cardinality(m)
                     /\ \A i \in m :
                           Cardinality({k \in 1..Len(item.uris) :
                               item.uris[k] = get_uri(logs.entries[i])}) = 1
                     /\ \A k \in 1..Len(item.uris) :
                           \E i \in m : item.uris[k] = get_uri(logs.entries[i])

\* the callers of _severity_from_risk_score
SpecBucket == InitBucket /\ [][SeverityFromRiskScoreCall]_vars

\* C20: a risk of 90 or more gives CRITICAL, from 70 up to 90 HIGH, from 40
\* up to 70 MEDIUM, above 0 up to 40 LOW, and 0 gives INFO; 90, 70 and 40
\* belong to the higher bucket.
C20_Buckets ==
    pc = "bucketed" =>
        /\ (risk_score >= 9000) => ret = CRITICAL
        /\ (7000 <= risk_score /\ risk_score < 9000) => ret = HIGH
        /\ (4000 <= risk_score /\ risk_score < 7000) => ret = MEDIUM
        /\ (0 < risk_score /\ risk_score < 4000) => ret = LOW
        /\ (risk_score = 0) => ret = INFO

\* a boundary score has been bucketed
C20_Witness ==
    /\ pc = "bucketed"
    /\ risk_score = 7000
    /\ ret = HIGH

\* the callers of the two max functions
SpecMax == InitMax /\ [][MaxSeverityCall]_vars

(***************************************************************************)
(* What the claims are stated with                                         *)
(***************************************************************************)
Done == pc = "done"

\* the technique id classify looks up: the argument, stripped
CalledId == StrStrip(OrEmpty(call.mitre_id))

\* the documented order INFO < LOW < MEDIUM < HIGH < CRITICAL of a severity
\* string, whatever its case
Level(s) ==
    LET u == StrUpper(s) IN
    CASE u = INFO -> 0
      [] u = LOW -> 1
      [] u = MEDIUM -> 2
      [] u = HIGH -> 3
      [] u = CRITICAL -> 4

\* the configuration follows the documented schema: thresholds are integers
SchemaOK == \A k \in DOMAIN escalation : escalation[k].t = "num"

AcuOv == DictGet(acu, "mitre_overrides", Empty)

CvssOv == DictGet(cvss, "mitre_overrides", Empty)

AcuCat == DictGet(acu, "mitre_to_category", Empty)

CvssCat == DictGet(cvss, "mitre_to_category", Empty)

AcuCatSev == DictGet(acu, "category_to_severity", Empty)

CvssCatSev == DictGet(cvss, "category_to_severity", Empty)

\* the same call with another count, or another hostname
SameCallWithCount(n) ==
    Classify(call.mitre_id, n, call.hostname, call.identity, call.category_hint)

SameCallWithHostname(h) ==
    Classify(call.mitre_id, call.count, h, call.identity, call.category_hint)

(***************************************************************************)
(* C1  The severity classify returns is the higher of the base severity    *)
(* and the risk-derived severity, so it is never below the base severity.  *)
(***************************************************************************)
C1_FinalIsMax ==
    (Done /\ ret # Raised) =>
        LET risk_sev == SeverityFromRiskScore(risk_score) IN
        /\ ret \in {base_sev, risk_sev}
        /\ Level(ret) = Max(Level(base_sev), Level(risk_sev))
        /\ Level(ret) >= Level(base_sev)

\* a CRITICAL base severity with a risk score of 0 stays CRITICAL
C1_Witness ==
    /\ Done
    /\ ret # Raised
    /\ Level(base_sev) = 4
    /\ risk_score = 0
    /\ ret = base_sev

(***************************************************************************)
(* C2  classify returns exactly one of INFO, LOW, MEDIUM, HIGH, CRITICAL   *)
(* when the configured severity strings are case variants of them.         *)
(***************************************************************************)
C2_ReturnsLabel == (Done /\ SchemaOK) => ret \in Labels

(***************************************************************************)
(* C3 as claimed: with an override in either profile, classify with        *)
(* count = 0 and hostname = null returns exactly that override.            *)
(***************************************************************************)
C3_ReturnsOverride ==
    (/\ Done
     /\ SchemaOK
     /\ call.count = 0
     /\ call.hostname = None
     /\ CalledId \in DOMAIN AcuOv \cup DOMAIN CvssOv)
    => ret = IF CalledId \in DOMAIN AcuOv THEN AcuOv[CalledId] ELSE CvssOv[CalledId]

\* the override that is the base severity: Profile A's, or Profile B's when
\* Profile A has none and no category is in play
C3_OverrideIsBase ==
    \/ CalledId \in DOMAIN AcuOv
    \/ /\ CalledId \in DOMAIN CvssOv
       /\ call.category_hint = None
       /\ CalledId \notin DOMAIN AcuCat \cup DOMAIN CvssCat

C3_Override == IF CalledId \in DOMAIN AcuOv THEN AcuOv[CalledId] ELSE CvssOv[CalledId]

\* nothing but the override's own heuristic feeds the risk score
C3_Quiet ==
    /\ call.identity = None
    /\ CalledId \notin DOMAIN mitre_risk
    /\ DOMAIN DictGet(cvss, "cvss_thresholds", Empty) = {}
    /\ \A k \in DOMAIN escalation : escalation[k].v > 0
    /\ \A k \in critical_asset_keywords : ~StrContains(k, <<" ">>)

(***************************************************************************)
(* C3 as amended: with count = 0 and hostname = null classify never        *)
(* returns less than the override that is the base severity, and with no   *)
(* identity, risk metadata, configured CVSS thresholds, non-positive       *)
(* escalation threshold or matching keyword it returns exactly that        *)
(* override when it is LOW..CRITICAL, and LOW when it is INFO.             *)
(***************************************************************************)
C3_OverrideAtLeast ==
    (/\ Done
     /\ SchemaOK
     /\ call.count = 0
     /\ call.hostname = None
     /\ C3_OverrideIsBase)
    => /\ Level(ret) >= Level(C3_Override)
       /\ C3_Quiet => ret = IF Level(C3_Override) = 0 THEN LOW ELSE C3_Override

\* an INFO override comes back as LOW
C3_Witness ==
    /\ Done
    /\ SchemaOK
    /\ call.count = 0
    /\ call.hostname = None
    /\ C3_OverrideIsBase
    /\ C3_Quiet
    /\ Level(C3_Override) = 0
    /\ ret = LOW

(***************************************************************************)
(* C4  classify is non-decreasing in count, whatever the two thresholds.   *)
(***************************************************************************)
C4_MonotoneInCount ==
    (Done /\ SchemaOK) =>
        \A n \in Counts : n > call.count => Level(SameCallWithCount(n)) >= Level(ret)

\* count_high above count_critical, and a larger count that raises the severity
C4_Witness ==
    /\ Done
    /\ SchemaOK
    /\ DOMAIN escalation = {"count_high", "count_critical"}
    /\ escalation["count_high"].v > escalation["count_critical"].v
    /\ \E n \in Counts : n > call.count /\ Level(SameCallWithCount(n)) > Level(ret)

(***************************************************************************)
(* C5  A hostname of the asset-criticality table with a weight above 1.0    *)
(* never gets a lower severity than the same call with hostname = null     *)
(* (stated for keyword sets without the empty keyword, which would match   *)
(* every text).                                                            *)
(***************************************************************************)
C5_CriticalAssetNotLower ==
    (/\ Done
     /\ SchemaOK
     /\ <<>> \notin critical_asset_keywords
     /\ call.hostname # None
     /\ StrStrip(StrLower(call.hostname)) \in DOMAIN asset_criticality
     /\ asset_criticality[StrStrip(StrLower(call.hostname))] > 10)
    => Level(ret) >= Level(SameCallWithHostname(None))

(***************************************************************************)
(* C6  classify is total: under a configuration that follows the schema    *)
(* it returns a severity and never raises, whatever the arguments.         *)
(***************************************************************************)
C6_Total == (Done /\ SchemaOK) => (ret # Raised /\ StrUpper(ret) \in Labels)

\* the empty technique id, count -1 and a mixed-case hostname
C6_Witness ==
    /\ Done
    /\ SchemaOK
    /\ call.mitre_id = <<>>
    /\ call.count = -1
    /\ call.hostname # None
    /\ StrLower(call.hostname) # call.hostname
    /\ StrUpper(ret) \in Labels

(***************************************************************************)
(* C7  A count of -1 is coerced to 0: it classifies as count 0 does.       *)
(***************************************************************************)
C7_NegativeCountAsZero ==
    (Done /\ SchemaOK /\ call.count = -1) => ret = SameCallWithCount(0)

(***************************************************************************)
(* C8  A Profile A override for the technique is the base severity,        *)
(* whatever the hint, the category tables and Profile B's override.        *)
(***************************************************************************)
C8_AcuOverrideWins ==
    (Done /\ CalledId \in DOMAIN AcuOv) => base_sev = AcuOv[CalledId]

\* a hint with a Profile A severity and a Profile B override are both passed over
C8_Witness ==
    /\ Done
    /\ CalledId \in DOMAIN AcuOv
    /\ call.category_hint \in DOMAIN AcuCatSev
    /\ CalledId \in DOMAIN CvssOv
    /\ AcuCatSev[call.category_hint] # AcuOv[CalledId]
    /\ CvssOv[CalledId] # AcuOv[CalledId]
    /\ base_sev = AcuOv[CalledId]

\* the category of step 2: the hint when one is supplied, else Profile A's
C9_Category ==
    IF call.category_hint # None THEN call.category_hint
    ELSE DictGet(AcuCat, CalledId, None)

(***************************************************************************)
(* C9 as claimed: without a Profile A override, the category is the hint   *)
(* when one is supplied (any string), else Profile A's category; if it has *)
(* a severity in Profile A's table, that is the base severity.             *)
(***************************************************************************)
C9_CategorySeverity ==
    (/\ Done
     /\ CalledId \notin DOMAIN AcuOv
     /\ C9_Category \in DOMAIN AcuCatSev)
    => base_sev = AcuCatSev[C9_Category]

(***************************************************************************)
(* C9 as amended: the same, for a category that is not the empty string.   *)
(***************************************************************************)
C9_NonEmptyCategorySeverity ==
    (/\ Done
     /\ CalledId \notin DOMAIN AcuOv
     /\ C9_Category # <<>>
     /\ C9_Category \in DOMAIN AcuCatSev)
    => base_sev = AcuCatSev[C9_Category]

\* the hint is used although Profile A maps the technique to another category
C9_Witness ==
    /\ Done
    /\ CalledId \notin DOMAIN AcuOv
    /\ call.category_hint # None
    /\ call.category_hint \in DOMAIN AcuCatSev
    /\ CalledId \in DOMAIN AcuCat
    /\ AcuCat[CalledId] # call.category_hint
    /\ base_sev = AcuCatSev[call.category_hint]

\* Profile A yields no severity: no override, and no category with a severity
C10_AcuYieldsNothing ==
    /\ CalledId \notin DOMAIN AcuOv
    /\ ~(Truthy(C9_Category) /\ C9_Category \in DOMAIN AcuCatSev)

(***************************************************************************)
(* C10  When Profile A yields nothing and no hint is supplied, Profile B's  *)
(* step takes the category from Profile B's own technique table and its    *)
(* severity from Profile B's category table.                               *)
(***************************************************************************)
C10_CvssOwnCategory ==
    (/\ Done
     /\ call.category_hint = None
     /\ C10_AcuYieldsNothing
     /\ CalledId \in DOMAIN CvssCat
     /\ CvssCat[CalledId] \in DOMAIN CvssCatSev)
    => base_sev = CvssCatSev[CvssCat[CalledId]]

\* the category of Profile B's step as documented: the hint when one is
\* supplied, else Profile B's category for the technique
C11_CvssCategory ==
    IF call.category_hint # None THEN call.category_hint
    ELSE DictGet(CvssCat, CalledId, None)

(***************************************************************************)
(* C11  Profile B's override is the base severity only when Profile A's    *)
(* override, Profile A's category path and Profile B's category path all   *)
(* yield nothing: when Profile A yields nothing and Profile B has both a   *)
(* category-derived severity and an override for the technique, the base   *)
(* severity is the category-derived one.                                   *)
(***************************************************************************)
C11_CvssCategoryBeforeOverride ==
    (/\ Done
     /\ C10_AcuYieldsNothing
     /\ CalledId \in DOMAIN CvssOv
     /\ Truthy(C11_CvssCategory)
     /\ C11_CvssCategory \in DOMAIN CvssCatSev)
    => base_sev = CvssCatSev[C11_CvssCategory]

\* nothing is configured: every table of both profiles is empty, and so are
\* the thresholds, the keywords and the risk metadata
EmptyStores ==
    /\ \A p \in {acu, cvss} : \A k \in DOMAIN p : p[k] = Empty
    /\ escalation = Empty
    /\ critical_asset_keywords = {}
    /\ mitre_risk = Empty

NoContext ==
    /\ call.hostname = None
    /\ call.identity = None
    /\ call.category_hint = None

HostWeight ==
    LET h == StrStrip(StrLower(OrEmpty(call.hostname)))
    IN  DictGet(asset_criticality, h, 0)

(***************************************************************************)
(* C13  With empty stores, count = 250 and a hostname of weight 1.5, the   *)
(* risk is 58 * 1.5 = 87 and classify returns HIGH.                        *)
(***************************************************************************)
C13_WeightedHost ==
    (/\ Done
     /\ EmptyStores
     /\ call.count = 250
     /\ HostWeight = 15)
    => (risk_score = 8700 /\ ret = HIGH)

C13_Witness ==
    /\ Done
    /\ EmptyStores
    /\ call.category_hint = None
    /\ call.identity = None
    /\ CalledId = T9999
    /\ call.count = 250
    /\ HostWeight = 15
    /\ risk_score = 8700
    /\ ret = HIGH

Maxed == pc = "maxed"

\* a severity string: one of the five labels in any case
C14_SeverityString(s) == Truthy(s) /\ StrUpper(s) \in Labels

(***************************************************************************)
(* C14  max_severity is commutative and idempotent over the strings it     *)
(* accepts, and compares by rank, never lexically.                         *)
(***************************************************************************)
C14_MaxCommutativeIdempotent ==
    (Maxed /\ C14_SeverityString(sev_a) /\ C14_SeverityString(sev_b)) =>
        /\ sev_max.engine = MaxSeverity(sev_b, sev_a)
        /\ sev_max.parser = max_severity(sev_b, sev_a)
        /\ sev_a = sev_b => (sev_max.engine = sev_a /\ sev_max.parser = sev_a)
        /\ Rank(sev_max.engine) = Max(Rank(sev_a), Rank(sev_b))
        /\ sev_index(sev_max.parser) = Max(sev_index(sev_a), sev_index(sev_b))

\* classify applied to the arguments of a call, on the engine as it is now
ClassifyOf(c) == Classify(c.mitre_id, c.count, c.hostname, c.identity, c.category_hint)

(***************************************************************************)
(* C15  classify never writes the engine: whatever calls were made and     *)
(* however two callers interleave, the tables, thresholds, keywords, asset *)
(* table and risk metadata stay as loaded, and every call returns what     *)
(* classify returns for its arguments on that engine.                      *)
(***************************************************************************)
C15_EngineReadOnly ==
    /\ [][engine' = engine]_vars
    /\ [](Done => ret = ClassifyOf(call))
    /\ [](other.pc = "returned" => other.ret = ClassifyOf(other.call))

\* a second call of the first caller returned while the second caller, one
\* call done, is in the middle of its next
C15_Witness ==
    /\ Done
    /\ ncalls = 2
    /\ other.n = 1
    /\ other.pc = "max"
    /\ ret = ClassifyOf(call)
    /\ other.call # call

\* the mapping file is a JSON object without a profile section whose tables
\* are at the top level
FlatFile ==
    /\ mapping_file.kind = "json"
    /\ mapping_file.v.t = "obj"
    /\ DOMAIN mapping_file.v.v \cap {"acunetix", "cvss"} = {}
    /\ "mitre_overrides" \in DOMAIN mapping_file.v.v

CliLoaded == cli_mapping.profile \in Profiles

(***************************************************************************)
(* C16  A mapping file without the profile section is taken as one flat    *)
(* profile: its top-level tables take effect, so a technique with a        *)
(* top-level override has that override as base severity, and the loader   *)
(* of the command-line parser returns the top-level tables.                *)
(***************************************************************************)
C16_FlatFileTakesEffect ==
    /\ (Done /\ FlatFile /\ CalledId \in DOMAIN mapping_file.v.v.mitre_overrides.v)
        => base_sev = mapping_file.v.v.mitre_overrides.v[CalledId]
    /\ (CliLoaded /\ FlatFile)
        => /\ "mitre_overrides" \in DOMAIN cli_mapping.mapping
           /\ cli_mapping.mapping.mitre_overrides = mapping_file.v.v.mitre_overrides.v

\* the mapping file is missing or malformed: absent, not JSON, a top level
\* that is no object, or a profile section that is no object
MalformedMapping ==
    \/ mapping_file.kind \in {"absent", "garbage"}
    \/ /\ mapping_file.kind = "json"
       /\ \/ mapping_file.v.t # "obj"
          \/ \E k \in DOMAIN mapping_file.v.v \cap {"acunetix", "cvss"} :
                mapping_file.v.v[k].t # "obj"

\* the risk metadata file is missing or malformed
MalformedRisk ==
    \/ risk_file.kind \in {"absent", "garbage"}
    \/ risk_file.kind = "json" /\ risk_file.v.t # "obj"

TableKeys == {"mitre_overrides", "mitre_to_category", "category_to_severity"}

(***************************************************************************)
(* C17  Loading a missing or malformed mapping or risk metadata file never *)
(* raises and yields empty tables, and classify then returns a severity    *)
(* for every input.                                                        *)
(***************************************************************************)
C17_LoadNeverRaises ==
    /\ MalformedMapping =>
          /\ pc # "failed"
          /\ DOMAIN acu \cap TableKeys = {}
          /\ DOMAIN cvss \cap TableKeys = {}
    /\ (MalformedMapping /\ CliLoaded) => DOMAIN cli_mapping.mapping \cap TableKeys = {}
    /\ (MalformedRisk /\ pc # "failed") => mitre_risk = Empty
    /\ ((MalformedMapping \/ MalformedRisk) /\ Done)
          => (ret # Raised /\ StrUpper(ret) \in Labels)


\* the escalation config in effect: Profile A's when it configures one,
\* else Profile B's
ActiveEscalation ==
    LET a == DictGet(acu, "escalation", Empty)
    IN  IF DOMAIN a # {} THEN a ELSE DictGet(cvss, "escalation", Empty)

CombinedText ==
    StrStrip(StrLower(OrEmpty(call.hostname))) \o <<" ">>
        \o StrStrip(StrLower(OrEmpty(call.identity)))

(***************************************************************************)
(* C22  When _compute_risk_score returns, the asset factor is the table    *)
(* weight when the hostname is in the asset-criticality table, whether or  *)
(* not a keyword also hits; otherwise 1.4 when the combined text contains  *)
(* a critical keyword; otherwise 1.0.  It is never below 1.0.              *)
(***************************************************************************)
C22_AssetFactor ==
    (Done /\ risk_parts.ran) =>
        /\ risk_parts.asset_factor =
              IF HostWeight # 0 THEN HostWeight
              ELSE IF \E k \in critical_asset_keywords : StrContains(k, CombinedText)
                   THEN 14
              ELSE 10
        /\ risk_parts.asset_factor >= 10

\* a hostname of weight 1.1 together with a keyword hit: the weight wins
C22_Witness ==
    /\ Done
    /\ risk_parts.ran
    /\ HostWeight = 11
    /\ \E k \in critical_asset_keywords : k # <<>> /\ StrContains(k, CombinedText)
    /\ risk_parts.asset_factor = 11


\* the non-empty keywords found in the lower-case text of hostname and
\* identity
KeywordsMatching ==
    {k \in critical_asset_keywords :
        k # <<>> /\ StrContains(k, StrLower(OrEmpty(call.hostname) \o <<" ">>
                                                \o OrEmpty(call.identity)))}

(***************************************************************************)
(* C23  When _compute_risk_score returns, the risk score is (6 * cvss      *)
(* score + impact + volume) * asset factor, plus 10 added once after the   *)
(* multiplication when at least one keyword matches (also when the         *)
(* hostname is in the asset table), clamped to [0, 100].                   *)
(***************************************************************************)
C23_RiskScore ==
    (Done /\ risk_parts.ran) =>
        LET raw == 6 * risk_parts.cvss_score + risk_parts.impact_score
                       + risk_parts.volume_score
            risk == raw * risk_parts.asset_factor
                       + (IF KeywordsMatching # {} THEN 1000 ELSE 0)
        IN  risk_score = IF risk > 10000 THEN 10000
                         ELSE IF risk < 0 THEN 0
                         ELSE risk

\* several keywords match and the hostname is in the table with weight
\* 1.1: (6 * 3.0 + 10 + 15) * 1.1 + 10 = 57.3
C23_Witness ==
    /\ Done
    /\ risk_parts.ran
    /\ Cardinality(KeywordsMatching) >= 2
    /\ HostWeight = 11
    /\ risk_parts.cvss_score = 30
    /\ risk_parts.impact_score = 100
    /\ risk_parts.volume_score = 150
    /\ risk_score = 5730


\* the value the risk metadata holds for the called technique under a key,
\* JNull when there is none
C24_Explicit(key) ==
    LET entry == RiskEntry(CalledId)
    IN  IF entry.t = "obj" THEN DictGet(entry.v, key, JNull) ELSE JNull

\* the configured threshold of a tier (tenths), the default where the
\* profile configures none
C24_Threshold(key) ==
    LET configured == DictGet(cvss, "cvss_thresholds", Empty)
    IN  IF DOMAIN configured # {} THEN DictGet(configured, key, DefaultCvssThresholds[key])
        ELSE DefaultCvssThresholds[key]

(***************************************************************************)
(* C24  When _compute_risk_score returns, an explicit risk-metadata value  *)
(* is used only when it is a number in range (cvss in [0, 10]; impact >= 0,*)
(* capped at 40); otherwise the heuristic for the base severity is used:   *)
(* cvss 9.5, 7.5, 5.5, 3.0 or 1.0, floored by the tier's threshold, and    *)
(* impact 40, 30, 20, 10 or 5.                                             *)
(***************************************************************************)
C24_ExplicitOrHeuristic ==
    (Done /\ risk_parts.ran) =>
        LET sev == StrUpper(base_sev)
            c == C24_Explicit("cvss")
            i == C24_Explicit("impact")
        IN  /\ risk_parts.cvss_score =
                  IF c.t = "num" /\ 0 <= c.v /\ c.v <= 100 THEN c.v
                  ELSE IF sev = CRITICAL THEN Max(95, C24_Threshold("critical_min"))
                  ELSE IF sev = HIGH THEN Max(75, C24_Threshold("high_min"))
                  ELSE IF sev = MEDIUM THEN Max(55, C24_Threshold("medium_min"))
                  ELSE IF sev = LOW THEN Max(30, C24_Threshold("low_min"))
                  ELSE 10
            /\ risk_parts.impact_score =
                  IF i.t = "num" /\ i.v >= 0 THEN Min(i.v, 400)
                  ELSE IF sev = CRITICAL THEN 400
                  ELSE IF sev = HIGH THEN 300
                  ELSE IF sev = MEDIUM THEN 200
                  ELSE IF sev = LOW THEN 100
                  ELSE 50


(***************************************************************************)
(* C25  When _compute_risk_score returns for a hostname that is not in the *)
(* asset-criticality table, the asset factor is 1.4 if and only if the     *)
(* keyword bonus is applied, whatever the keyword set.                     *)
(***************************************************************************)
C25_KeywordChecksAgree ==
    (Done /\ risk_parts.ran /\ HostWeight = 0) =>
        (risk_parts.asset_factor = 14 <=> risk_parts.keyword)


(***************************************************************************)
(* C26  With no risk metadata loaded, a call of classify that returns has  *)
(* a risk score above 0 and returns at least LOW, never INFO, also for a   *)
(* technique whose base severity is an INFO override and count = 0.        *)
(***************************************************************************)
C26_NeverInfo ==
    (Done /\ risk_parts.ran /\ mitre_risk = Empty) =>
        /\ risk_score > 0
        /\ Level(ret) >= 1

\* an INFO override and count 0: risk 6 * 1.0 + 5 = 11, result LOW
C26_Witness ==
    /\ Done
    /\ mitre_risk = Empty
    /\ CalledId \in DOMAIN AcuOv
    /\ StrUpper(base_sev) = INFO
    /\ call.count = 0
    /\ call.hostname = None
    /\ call.identity = None
    /\ risk_score = 1100
    /\ ret = LOW


\* the entries of whitelisted tenants whose request-target matches the
\* row of technique t
C27_Matching(t) ==
    {i \in 1..Len(api.entries) :
        /\ extract_hostname(api.entries[i]) \in WHITELIST_TENANTS
        /\ ReSearch(UriPatterns("core")[t], get_uri(api.entries[i]))}

(***************************************************************************)
(* C27  In the payload build_api_data returns, every matched technique has *)
(* one row with one severity and its full count, the value of a severity   *)
(* label is the sum of the counts of the rows with that severity, the      *)
(* values sum to total_attacks, and total_attacks is the sum over the      *)
(* techniques of the matching entries of whitelisted tenants.              *)
(***************************************************************************)
C27_DistributionSumsToTotal ==
    pc = "built" =>
        LET d == api.data
            techniques == DOMAIN UriPatterns("core")
            matches == [t \in techniques |-> Cardinality(C27_Matching(t))]
            rows == [t \in DOMAIN d.mitre |-> d.mitre[t].count]
        IN  /\ SetSum(d.severity, DOMAIN d.severity) = d.total_attacks
            /\ d.total_attacks = SetSum(matches, techniques)
            /\ \A t \in techniques :
                  IF matches[t] = 0 THEN t \notin DOMAIN d.mitre
                  ELSE /\ t \in DOMAIN d.mitre
                       /\ d.mitre[t].count = matches[t]
                       /\ d.mitre[t].severity \in DOMAIN d.severity
            /\ \A l \in DOMAIN d.severity :
                  d.severity[l] =
                      SetSum(rows, {t \in DOMAIN d.mitre : d.mitre[t].severity = l})

\* three entries, one of a host that is not whitelisted: two techniques
\* with two severities, 2 + 1 = 3 attacks
C27_Witness ==
    /\ pc = "built"
    /\ \E i \in 1..Len(api.entries) :
          extract_hostname(api.entries[i]) \notin WHITELIST_TENANTS
    /\ Cardinality(DOMAIN api.data.mitre) = 2
    /\ Cardinality(DOMAIN api.data.severity) = 2
    /\ api.data.total_attacks = 3

====
